---- MODULE Spec2Model ----
(***************************************************************************)
(* Model of src/main.c: the greedy unit-time task scheduler driven by a    *)
(* disjoint-set forest with union by rank and path compression.            *)
(*                                                                         *)
(* C arrays are functions over 0..n-1.  The slot array is a variable       *)
(* length array that main fills with make_set before it reads it; the      *)
(* model keeps only the elements already written, so DOMAIN slot is the    *)
(* set of initialised slots.  The printed schedule and table keep the      *)
(* 1-based numbers that printf emits.  The model covers size >= 1; ranks   *)
(* and indices stay far below the width of unsigned int.                   *)
(***************************************************************************)
EXTENDS Integers, Sequences, FiniteSets, TLC

VARIABLES size, deadline_of_task, slot, i, index_of_slot_to_schedule,
          schedule, table, pc

vars == <<size, deadline_of_task, slot, i, index_of_slot_to_schedule,
          schedule, table, pc>>

\* Largest number of tasks the user enters (the scanf branch that succeeds).
MaxSize == 4

\* Number of tasks of the default branch.
DefaultSize == 10

\* The default deadlines, deadline_of_task[0..9].
DefaultDeadlines == <<0, 6, 1, 9, 2, 5, 3, 3, 6, 0>>

default_deadline_of_task == [k \in 0..(DefaultSize - 1) |-> DefaultDeadlines[k + 1]]

\* The two orders in which a build may evaluate the arguments of the call
\* merge(slot, find_set(slot, i), find_set(slot, j)).
ArgOrder == {"i_first", "j_first"}

last == size - 1

(***************************************************************************)
(* The disjoint-set procedures.                                            *)
(***************************************************************************)

make_set_zero_parent(s, k) ==
    [x \in (DOMAIN s) \cup {k} |->
        IF x = k THEN [available_slot |-> k, parent |-> 0, rank |-> 0]
                 ELSE s[x]]

make_set(s, k) ==
    [x \in (DOMAIN s) \cup {k} |->
        IF x = k THEN [available_slot |-> k, parent |-> k, rank |-> 0]
                 ELSE s[x]]

RECURSIVE find_set_nocompress(_, _)
find_set_nocompress(s, k) ==
    IF k # s[k].parent
    THEN [slot |-> s, ret |-> find_set_nocompress(s, s[k].parent).ret]
    ELSE [slot |-> s, ret |-> s[k].parent]

RECURSIVE find_set_copy_up(_, _)
find_set_copy_up(s, k) ==
    IF k # s[k].parent
    THEN LET r  == find_set_copy_up(s, s[k].parent)
             s1 == [r.slot EXCEPT ![k].parent = r.ret]
             s2 == [s1 EXCEPT ![s1[k].parent].available_slot =
                                  s1[k].available_slot]
         IN  [slot |-> s2, ret |-> s2[k].parent]
    ELSE [slot |-> s, ret |-> s[k].parent]

\* find_set returns the array as the call leaves it and the returned index.
RECURSIVE find_set(_, _)
find_set(s, k) ==
    IF k # s[k].parent
    THEN LET r  == find_set(s, s[k].parent)
             s1 == [r.slot EXCEPT ![k].parent = r.ret]
             s2 == [s1 EXCEPT ![k].available_slot =
                                  s1[s1[k].parent].available_slot]
         IN  [slot |-> s2, ret |-> s2[k].parent]
    ELSE [slot |-> s, ret |-> s[k].parent]

merge_keep_own(s, a, b) ==
    IF s[a].rank > s[b].rank
    THEN [s EXCEPT ![b].parent = a]
    ELSE LET s1 == [s EXCEPT ![a].parent = b]
         IN  IF s1[a].rank = s1[b].rank
             THEN [s1 EXCEPT ![b].rank = s1[a].rank + 1]
             ELSE s1

merge_no_link(s, a, b) ==
    IF s[a].rank > s[b].rank
    THEN LET s1 == [s EXCEPT ![b].parent = a]
         IN  [s1 EXCEPT ![a].available_slot = s1[b].available_slot]
    ELSE IF s[a].rank = s[b].rank
         THEN LET s1 == [s EXCEPT ![a].parent = b]
              IN  [s1 EXCEPT ![b].rank = s1[a].rank + 1]
         ELSE s

merge_no_rank(s, a, b) ==
    IF s[a].rank > s[b].rank
    THEN LET s1 == [s EXCEPT ![b].parent = a]
         IN  [s1 EXCEPT ![a].available_slot = s1[b].available_slot]
    ELSE [s EXCEPT ![a].parent = b]

merge(s, a, b) ==
    IF s[a].rank > s[b].rank
    THEN LET s1 == [s EXCEPT ![b].parent = a]
         IN  [s1 EXCEPT ![a].available_slot = s1[b].available_slot]
    ELSE LET s1 == [s EXCEPT ![a].parent = b]
         IN  IF s1[a].rank = s1[b].rank
             THEN [s1 EXCEPT ![b].rank = s1[a].rank + 1]
             ELSE s1

unite_no_find(s, a, b, ord) == merge(s, a, b)

unite(s, a, b, ord) ==
    IF ord = "i_first"
    THEN LET fa == find_set(s, a)
             fb == find_set(fa.slot, b)
         IN  merge(fb.slot, fa.ret, fb.ret)
    ELSE LET fb == find_set(s, b)
             fa == find_set(fb.slot, a)
         IN  merge(fa.slot, fa.ret, fb.ret)

\* The third loop of display_all_sets, columns k..n-1: the array as the
\* calls leave it and the numbers printed in the row.  f is the result of
\* the call find_set(slot, k) and rest the result of the later columns;
\* both are bound by a one-element set so that each call is evaluated
\* once, as the loop makes it once.
RECURSIVE display_row(_, _, _)
display_row(s, k, n) ==
    IF k < n
    THEN CHOOSE out \in
            UNION {{[slot |-> rest.slot,
                     row  |-> <<f.slot[f.ret].available_slot + 1>> \o rest.row]
                       : rest \in {display_row(f.slot, k + 1, n)}}
                     : f \in {find_set(s, k)}} : TRUE
    ELSE [slot |-> s, row |-> <<>>]

display_all_sets(s, n) == display_row(s, 0, n)

(***************************************************************************)
(* main.                                                                   *)
(***************************************************************************)

Init ==
    /\ \/ /\ size = DefaultSize
          /\ deadline_of_task = default_deadline_of_task
       \/ /\ size \in 1..MaxSize
          /\ deadline_of_task \in [0..(size - 1) -> 0..(size - 1)]
    /\ slot = [x \in {} |-> x]
    /\ i = 0
    /\ index_of_slot_to_schedule = 0
    /\ schedule = <<>>
    /\ table = <<>>
    /\ pc = "make"

\* One iteration of the loop that initialises the time slots.
MakeSet ==
    /\ pc = "make"
    /\ i < size
    /\ slot' = make_set(slot, i)
    /\ IF i + 1 < size
       THEN /\ i' = i + 1
            /\ pc' = "make"
       ELSE /\ i' = 0
            /\ pc' = "assign"
    /\ UNCHANGED <<size, deadline_of_task, index_of_slot_to_schedule,
                   schedule, table>>

\* The lookup of the scheduling loop and the line it prints.
Assign ==
    /\ pc = "assign"
    /\ i < size
    /\ LET f == find_set(slot, deadline_of_task[i])
           x == f.slot[f.ret].available_slot
       IN  /\ slot' = f.slot
           /\ index_of_slot_to_schedule' = x
           /\ schedule' = Append(schedule, <<i + 1, x + 1>>)
    /\ pc' = "unite"
    /\ UNCHANGED <<size, deadline_of_task, i, table>>

UniteAlways ==
    /\ pc = "unite"
    /\ \E ord \in ArgOrder :
          slot' = unite(slot, index_of_slot_to_schedule,
                        IF index_of_slot_to_schedule = 0
                        THEN last
                        ELSE index_of_slot_to_schedule - 1,
                        ord)
    /\ pc' = "display"
    /\ UNCHANGED <<size, deadline_of_task, i, index_of_slot_to_schedule,
                   schedule, table>>

UniteNoWrap ==
    /\ pc = "unite"
    /\ IF i # size - 1
       THEN \E ord \in ArgOrder :
               slot' = unite(slot, index_of_slot_to_schedule,
                             IF index_of_slot_to_schedule = 0
                             THEN 0
                             ELSE index_of_slot_to_schedule - 1,
                             ord)
       ELSE slot' = slot
    /\ pc' = "display"
    /\ UNCHANGED <<size, deadline_of_task, i, index_of_slot_to_schedule,
                   schedule, table>>

UniteForward ==
    /\ pc = "unite"
    /\ IF i # size - 1
       THEN \E ord \in ArgOrder :
               slot' = unite(slot, index_of_slot_to_schedule,
                             IF index_of_slot_to_schedule = last
                             THEN 0
                             ELSE index_of_slot_to_schedule + 1,
                             ord)
       ELSE slot' = slot
    /\ pc' = "display"
    /\ UNCHANGED <<size, deadline_of_task, i, index_of_slot_to_schedule,
                   schedule, table>>

\* The conditional unite of the scheduling loop.
Unite ==
    /\ pc = "unite"
    /\ IF i # size - 1
       THEN \E ord \in ArgOrder :
               slot' = unite(slot, index_of_slot_to_schedule,
                             IF index_of_slot_to_schedule = 0
                             THEN last
                             ELSE index_of_slot_to_schedule - 1,
                             ord)
       ELSE slot' = slot
    /\ pc' = "display"
    /\ UNCHANGED <<size, deadline_of_task, i, index_of_slot_to_schedule,
                   schedule, table>>

DisplayEarlyExit ==
    /\ pc = "display"
    /\ LET d == display_all_sets(slot, size)
       IN  /\ slot' = d.slot
           /\ table' = d.row
    /\ IF i + 2 < size
       THEN /\ i' = i + 1
            /\ pc' = "assign"
       ELSE /\ i' = i + 1
            /\ pc' = "done"
    /\ UNCHANGED <<size, deadline_of_task, index_of_slot_to_schedule,
                   schedule>>

\* The diagnostic table that ends an iteration, and the loop increment.
Display ==
    /\ pc = "display"
    /\ LET d == display_all_sets(slot, size)
       IN  /\ slot' = d.slot
           /\ table' = d.row
    /\ IF i + 1 < size
       THEN /\ i' = i + 1
            /\ pc' = "assign"
       ELSE /\ i' = i + 1
            /\ pc' = "done"
    /\ UNCHANGED <<size, deadline_of_task, index_of_slot_to_schedule,
                   schedule>>

Next == MakeSet \/ Assign \/ Unite \/ Display

Spec == Init /\ [][Next]_vars

\* main is sequential code: a statement that can run does run.
FairSpec == Init /\ [][Next]_vars /\ WF_vars(Next)

(***************************************************************************)
(* Reading the printed schedule back.                                      *)
(***************************************************************************)

\* The 0-based slot printed for the k-th line of the schedule.
SlotOfLine(k) == schedule[k][2] - 1

\* The slots given to the first n tasks.
TakenBy(n) == {SlotOfLine(k) : k \in 1..n}

AllSlots == 0..(size - 1)

SetMax(S) == CHOOSE x \in S : \A y \in S : y <= x

SetMin(S) == CHOOSE x \in S : \A y \in S : x <= y

\* Reference: the free slots at or before deadline d, given the taken slots.
FreeUpTo(d, taken) == {s \in AllSlots \ taken : s <= d}

\* Reference: the largest free slot at or before d.
MaxFreeUpTo(d, taken) == SetMax(FreeUpTo(d, taken))

\* C1: a run emits one line per task, in input order, and the slots of the
\* lines are pairwise distinct members of [0,size); a finished run has
\* emitted exactly size lines, so the task-to-slot map is a bijection.
C1_Bijection ==
    /\ Len(schedule) <= size
    /\ \A k \in 1..Len(schedule) :
          /\ schedule[k][1] = k
          /\ SlotOfLine(k) \in AllSlots
    /\ \A k, m \in 1..Len(schedule) :
          k # m => SlotOfLine(k) # SlotOfLine(m)
    /\ pc = "done" => /\ Len(schedule) = size
                      /\ TakenBy(size) = AllSlots

C1_Witness ==
    /\ pc = "done"
    /\ size >= 3
    /\ Len(schedule) = size
    /\ \E k \in 1..size : SlotOfLine(k) # deadline_of_task[k - 1]

\* C2: when a slot at or before the task's deadline is still free at the
\* task's turn, the task gets the largest such slot.
C2_LatestFreeUpToDeadline ==
    pc = "unite" =>
        LET d     == deadline_of_task[i]
            taken == TakenBy(i)
        IN  FreeUpTo(d, taken) # {} =>
               /\ index_of_slot_to_schedule = MaxFreeUpTo(d, taken)
               /\ SlotOfLine(i + 1) = MaxFreeUpTo(d, taken)

C2_Witness ==
    /\ pc = "unite"
    /\ i >= 2
    /\ FreeUpTo(deadline_of_task[i], TakenBy(i)) # {}
    /\ deadline_of_task[i] \in TakenBy(i)
    /\ index_of_slot_to_schedule < deadline_of_task[i] - 1

\* C3: when no slot at or before the task's deadline is free at the task's
\* turn, the lookup wraps around and the task gets the largest free slot.
C3_WrapAround ==
    pc = "unite" =>
        LET d     == deadline_of_task[i]
            taken == TakenBy(i)
        IN  FreeUpTo(d, taken) = {} =>
               /\ index_of_slot_to_schedule = SetMax(AllSlots \ taken)
               /\ SlotOfLine(i + 1) = SetMax(AllSlots \ taken)

C3_Witness ==
    /\ pc = "unite"
    /\ deadline_of_task[i] = 0
    /\ 0 \in TakenBy(i)
    /\ (size - 1) \in TakenBy(i)
    /\ index_of_slot_to_schedule = SetMax(AllSlots \ TakenBy(i))
    /\ index_of_slot_to_schedule > 0

\* The tasks of the finished schedule that miss their deadline.
LateTasks == {k \in 1..Len(schedule) : SlotOfLine(k) > deadline_of_task[k - 1]}

\* Reference: the least number of late tasks among all ways to give tasks
\* k..size-1 pairwise distinct slots of the set free.
RECURSIVE MinLateFrom(_, _)
MinLateFrom(k, free) ==
    IF k = size
    THEN 0
    ELSE SetMin({(IF s > deadline_of_task[k] THEN 1 ELSE 0)
                    + MinLateFrom(k + 1, free \ {s}) : s \in free})

\* C4: the finished schedule misses as few deadlines as any bijection from
\* tasks to slots does.
C4_Optimal ==
    pc = "done" => Cardinality(LateTasks) = MinLateFrom(0, AllSlots)

C4_Witness ==
    /\ pc = "done"
    /\ size >= 3
    /\ Cardinality(LateTasks) >= 2
    /\ Cardinality(LateTasks) = MinLateFrom(0, AllSlots)

\* The slots of the default run, in task order.
GoldenSlots == <<0, 6, 1, 9, 2, 5, 3, 8, 4, 7>>

\* C5: with the default deadlines every run prints the same lines: slot 0
\* for task 1, slot 6 for task 2, slot 1 for task 3, and in all the slots
\* 0,6,1,9,2,5,3,8,4,7 in task order.
C5_DefaultRun ==
    (size = DefaultSize /\ deadline_of_task = default_deadline_of_task) =>
        /\ \A k \in 1..Len(schedule) : SlotOfLine(k) = GoldenSlots[k]
        /\ pc = "done" => [k \in 1..Len(schedule) |-> SlotOfLine(k)] = GoldenSlots

C5_Witness ==
    /\ size = DefaultSize
    /\ deadline_of_task = default_deadline_of_task
    /\ pc = "done"
    /\ Len(schedule) = DefaultSize
    /\ SlotOfLine(1) = 0 /\ SlotOfLine(2) = 6 /\ SlotOfLine(3) = 1

(***************************************************************************)
(* The forest.                                                             *)
(***************************************************************************)

\* The representative find_set returns for slot k of the array s.
Rep(s, k) == find_set(s, k).ret

\* The number of parent links between slot k and its root.
RECURSIVE ParentSteps(_, _)
ParentSteps(s, k) ==
    IF s[k].parent = k THEN 0 ELSE 1 + ParentSteps(s, s[k].parent)

NumSets == Cardinality({Rep(slot, k) : k \in DOMAIN slot})

\* C6: in every forest of a run, for all slots a and b, find_set(a) and
\* find_set(b) called right after unite(a, b) return the same slot.
C6_UniteJoins ==
    \A a, b \in DOMAIN slot : \A ord \in ArgOrder :
        LET u  == unite(slot, a, b, ord)
            fa == find_set(u, a)
            fb == find_set(fa.slot, b)
        IN  fa.ret = fb.ret

C6_Witness ==
    /\ pc = "display"
    /\ i # size - 1
    /\ size >= 3
    /\ Rep(slot, index_of_slot_to_schedule) =
          Rep(slot, IF index_of_slot_to_schedule = 0
                    THEN last ELSE index_of_slot_to_schedule - 1)
    /\ \E a, b \in DOMAIN slot : Rep(slot, a) # Rep(slot, b)

\* C7: in every forest of a run and for every slot s, a second find_set(s)
\* returns what the first returned and leaves the array as the first left
\* it, and after the first call s is at most one parent link from its root.
C7_FindIdempotent ==
    \A s \in DOMAIN slot :
        LET f1 == find_set(slot, s)
            f2 == find_set(f1.slot, s)
        IN  /\ f2.ret = f1.ret
            /\ f2.slot = f1.slot
            /\ ParentSteps(f1.slot, s) <= 1
            /\ f1.slot[s].parent = f1.ret

C7_Witness ==
    \E s \in DOMAIN slot :
        /\ ParentSteps(slot, s) >= 2
        /\ find_set(slot, s).slot # slot
        /\ ParentSteps(find_set(slot, s).slot, s) = 1

\* C8: two slots that have the same representative before a step of the run
\* have the same representative after it, so sets never split.
C8_Monotonic ==
    [][\A a, b \in DOMAIN slot :
          Rep(slot, a) = Rep(slot, b) => Rep(slot', a) = Rep(slot', b)]_vars

C8_Witness ==
    /\ pc = "done"
    /\ size >= 3
    /\ \A a, b \in DOMAIN slot : Rep(slot, a) = Rep(slot, b)

\* C9: after k completed tasks, k < size, the forest has size - k sets; each
\* unite but the last iteration's merges two distinct sets, the last
\* iteration leaves the forest alone, and the forest is one set when the
\* final task is looked up and when the run ends.
C9_SetCount ==
    /\ [](pc = "assign" => NumSets = size - i)
    /\ []((pc = "display" /\ i + 1 < size) => NumSets = size - (i + 1))
    /\ []((pc \in {"unite", "display"} /\ i = size - 1) => NumSets = 1)
    /\ [](pc = "done" => NumSets = 1)
    /\ [][pc = "unite" => IF i # size - 1
                          THEN NumSets' = NumSets - 1
                          ELSE slot' = slot]_vars

C9_Witness ==
    /\ pc = "done"
    /\ size >= 3
    /\ NumSets = 1
    /\ \E k \in DOMAIN slot : slot[k].rank >= 2

\* The slot a set offers: the available_slot of the root of slot k.
Offered(s, k) == LET f == find_set(s, k) IN f.slot[f.ret].available_slot

\* C10 as stated: between scheduler steps, the final one included, every
\* set offers a slot of [0,size) that no task has been given.
C10_AvailableFree_AsStated ==
    pc \in {"assign", "display", "done"} =>
        \A k \in DOMAIN slot :
            /\ Offered(slot, k) \in AllSlots
            /\ Offered(slot, k) \notin TakenBy(Len(schedule))

\* C10 amended: between scheduler steps up to the lookup of the final task,
\* every set offers a slot of [0,size) that no task has been given; after
\* the final task the offered slot is still in [0,size).
C10_AvailableFree ==
    pc \in {"assign", "display", "done"} =>
        \A k \in DOMAIN slot :
            /\ Offered(slot, k) \in AllSlots
            /\ Len(schedule) < size =>
                  Offered(slot, k) \notin TakenBy(Len(schedule))

C10_Witness ==
    /\ pc = "display"
    /\ i + 1 < size
    /\ size >= 3
    /\ \A k \in DOMAIN slot : Offered(slot, k) \notin TakenBy(Len(schedule))
    /\ \E k \in DOMAIN slot : slot[k].available_slot \in TakenBy(Len(schedule))

(***************************************************************************)
(* The run without the optional diagnostic table.                          *)
(***************************************************************************)

\* The array after the loop of make_set calls for slots 0..n-1.
RECURSIVE MadeSlots(_)
MadeSlots(n) ==
    IF n = 0 THEN [x \in {} |-> x] ELSE make_set(MadeSlots(n - 1), n - 1)

\* The array and the printed lines after k iterations of the scheduling
\* loop when display_all_sets is never called; ord is the build's order of
\* evaluating the arguments of merge.
RECURSIVE PlainRun(_, _)
PlainRun(k, ord) ==
    IF k = 0
    THEN [slot |-> MadeSlots(size), lines |-> <<>>]
    ELSE LET p == PlainRun(k - 1, ord)
             t == k - 1
             f == find_set(p.slot, deadline_of_task[t])
             x == f.slot[f.ret].available_slot
             u == IF t # size - 1
                  THEN unite(f.slot, x, IF x = 0 THEN last ELSE x - 1, ord)
                  ELSE f.slot
         IN  [slot |-> u, lines |-> Append(p.lines, <<t + 1, x + 1>>)]

\* C11: after each step, the run that takes the snapshot and the run that
\* never takes it have printed the same lines and agree on every slot's
\* representative, on every root's rank and on every set's offered slot.
C11_SnapshotTransparent ==
    pc \in {"assign", "done"} =>
        \A ord \in ArgOrder :
            LET p == PlainRun(i, ord)
            IN  /\ schedule = p.lines
                /\ \A s \in AllSlots :
                      /\ Rep(slot, s) = Rep(p.slot, s)
                      /\ slot[Rep(slot, s)].rank = p.slot[Rep(slot, s)].rank
                      /\ Offered(slot, s) = Offered(p.slot, s)

C11_Witness ==
    /\ pc = "done"
    /\ size >= 4
    /\ table # <<>>
    /\ schedule = PlainRun(size, "i_first").lines
    /\ slot # PlainRun(size, "i_first").slot

\* C12 as stated: the snapshot leaves the stored available_slot of every
\* slot as it was.
C12_StoredAvailableKept_AsStated ==
    [][pc = "display" =>
          \A s \in DOMAIN slot :
              slot'[s].available_slot = slot[s].available_slot]_vars

\* C12 amended: the snapshot leaves the slot every set offers, every rank
\* and every field of every root as they were; the stored available_slot
\* of a slot that is not a root may change, and then it becomes the slot
\* its set offers.
C12_OfferedKept ==
    [][pc = "display" =>
          \A s \in DOMAIN slot :
              /\ Offered(slot', s) = Offered(slot, s)
              /\ slot'[s].rank = slot[s].rank
              /\ slot[s].parent = s => slot'[s] = slot[s]
              /\ slot'[s].available_slot # slot[s].available_slot =>
                    /\ slot[s].parent # s
                    /\ slot'[s].available_slot = Offered(slot, s)]_vars

C12_Witness ==
    /\ pc = "assign"
    /\ i >= 2
    /\ Len(table) = size
    /\ \E s \in DOMAIN slot :
          /\ slot[s].parent # s
          /\ slot[s].available_slot # s
          /\ slot[s].available_slot = Offered(slot, s)
          /\ table[s + 1] = slot[s].available_slot + 1

\* C14: once make_set has run for every slot and before any unite, every
\* slot is its own root: available_slot = parent = its index, rank = 0,
\* and find_set returns the slot itself and changes nothing.
C14_AfterMakeSet ==
    /\ \A k \in DOMAIN slot :
          pc = "make" => slot[k] = [available_slot |-> k, parent |-> k, rank |-> 0]
    /\ (pc \in {"assign", "unite"} /\ i = 0) =>
          /\ DOMAIN slot = AllSlots
          /\ \A k \in AllSlots :
                /\ slot[k] = [available_slot |-> k, parent |-> k, rank |-> 0]
                /\ find_set(slot, k).ret = k
                /\ find_set(slot, k).slot = slot

C14_Witness ==
    /\ pc = "assign"
    /\ i = 0
    /\ size >= 3
    /\ DOMAIN slot = AllSlots
    /\ \A k \in AllSlots : find_set(slot, k).ret = k

\* C15: with one task, the task gets slot 0, and the forest stays as
\* make_set left it through the whole run, so no unite has touched it.
C15_SingleTask ==
    size = 1 =>
        /\ pc \in {"unite", "display", "done"} => schedule = <<<<1, 1>>>>
        /\ pc \in {"unite", "display", "done"} => index_of_slot_to_schedule = 0
        /\ pc # "make" =>
              slot = (0 :> [available_slot |-> 0, parent |-> 0, rank |-> 0])

C15_Witness ==
    /\ size = 1
    /\ pc = "done"
    /\ schedule = <<<<1, 1>>>>
    /\ slot[0].rank = 0

\* C16: for any two distinct roots a and b of a forest of the run, after
\* merge(a, b) the root of the merged set is a when rank[a] > rank[b] and b
\* otherwise, it carries the available_slot b had, b's rank grows by one
\* exactly when the ranks were equal, and a's rank stays.
C16_MergeAsymmetry ==
    \A a, b \in DOMAIN slot :
        (a # b /\ slot[a].parent = a /\ slot[b].parent = b) =>
            LET m   == merge(slot, a, b)
                top == IF slot[a].rank > slot[b].rank THEN a ELSE b
            IN  /\ m[a].parent = top
                /\ m[b].parent = top
                /\ m[top].available_slot = slot[b].available_slot
                /\ m[a].rank = slot[a].rank
                /\ m[b].rank = IF slot[a].rank = slot[b].rank
                               THEN slot[b].rank + 1
                               ELSE slot[b].rank

C16_Witness ==
    /\ pc = "display"
    /\ i + 1 < size
    /\ \E a, b \in DOMAIN slot :
          /\ a # b /\ slot[a].parent = a /\ slot[b].parent = b
          /\ slot[a].rank > slot[b].rank
          /\ slot[a].available_slot # slot[b].available_slot
          /\ merge(slot, a, b)[a].available_slot = slot[b].available_slot
          /\ merge(slot, a, b)[b].parent = a

\* Reference: the root reached from slot k by following parent links.
RECURSIVE RootOf(_, _)
RootOf(s, k) == IF s[k].parent = k THEN k ELSE RootOf(s, s[k].parent)

\* Reference: the slots on the parent chain from k to its root.
RECURSIVE PathOf(_, _)
PathOf(s, k) ==
    IF s[k].parent = k THEN {k} ELSE {k} \cup PathOf(s, s[k].parent)

\* C17: find_set(k) returns the root r of k's tree; afterwards every slot
\* other than r on the old path from k to r has parent r and r's
\* available_slot; every rank, r itself and every slot off the path are
\* unchanged.
C17_FindFrame ==
    \A k \in DOMAIN slot :
        LET f == find_set(slot, k)
            r == RootOf(slot, k)
            P == PathOf(slot, k)
        IN  /\ f.ret = r
            /\ \A x \in DOMAIN slot :
                  /\ f.slot[x].rank = slot[x].rank
                  /\ IF x \in P \ {r}
                     THEN /\ f.slot[x].parent = r
                          /\ f.slot[x].available_slot = slot[r].available_slot
                     ELSE f.slot[x] = slot[x]

C17_Witness ==
    /\ pc = "display"
    /\ \E k \in DOMAIN slot :
          /\ Cardinality(PathOf(slot, k)) >= 3
          /\ slot[k].available_slot # slot[RootOf(slot, k)].available_slot
          /\ \E x \in DOMAIN slot :
                x \notin PathOf(slot, k) /\ slot[x].parent # x

\* C18: along every parent link the rank grows strictly, and the rank of
\* a root is at least the number of parent links from any slot of its tree.
C18_RankBoundsHeight ==
    \A k \in DOMAIN slot :
        /\ slot[k].parent # k => slot[k].rank < slot[slot[k].parent].rank
        /\ ParentSteps(slot, k) <= slot[RootOf(slot, k)].rank

C18_Witness ==
    /\ pc = "display"
    /\ \E k \in DOMAIN slot :
          /\ ParentSteps(slot, k) = 2
          /\ slot[RootOf(slot, k)].rank = 2

\* The slots of the set of slot k.
Members(k) == {m \in DOMAIN slot : RootOf(slot, m) = RootOf(slot, k)}

\* C19: between scheduler steps, while a task is still to be assigned,
\* every set is a circular run a, a+1, ..., b of slots, a is the slot the
\* set offers and its only free member, and sets that offer the same slot
\* are the same set.
C19_Contiguous ==
    (pc \in {"assign", "display"} /\ Len(schedule) < size) =>
        /\ \A k \in DOMAIN slot :
              LET S == Members(k)
                  a == Offered(slot, k)
              IN  /\ a \in S
                  /\ a \notin TakenBy(Len(schedule))
                  /\ S \ {a} \subseteq TakenBy(Len(schedule))
                  /\ S = {(a + j) % size : j \in 0..(Cardinality(S) - 1)}
        /\ \A k, m \in DOMAIN slot :
              Offered(slot, k) = Offered(slot, m) =>
                 RootOf(slot, k) = RootOf(slot, m)

C19_Witness ==
    /\ pc = "display"
    /\ Len(schedule) < size
    /\ \E k \in DOMAIN slot :
          /\ Offered(slot, k) > k
          /\ Cardinality(Members(k)) >= 3
          /\ Cardinality(Members(k)) < size

\* The slot reached from k after n parent links.
RECURSIVE Walk(_, _, _)
Walk(s, k, n) == IF n = 0 THEN k ELSE Walk(s, s[k].parent, n - 1)

\* Every parent chain reaches a root within size - 1 links, so the only
\* cycles of parent links are the self-loops of the roots.
NoCycle ==
    \A k \in DOMAIN slot :
        LET r == Walk(slot, k, size - 1) IN slot[r].parent = r

\* C20: parent links never form a cycle other than a root's self-loop,
\* find_set follows at most size - 1 links, and every run ends, after
\* exactly size iterations of the scheduling loop.
C20_Terminates ==
    /\ [](NoCycle /\ \A k \in DOMAIN slot : ParentSteps(slot, k) <= size - 1)
    /\ [](pc = "done" => (i = size /\ Len(schedule) = size /\ Len(table) = size))
    /\ <>(pc = "done")

C20_Witness ==
    /\ pc = "done"
    /\ size >= 4
    /\ i = size
    /\ Len(schedule) = size
    /\ NoCycle

====
